---- MODULE Spec2Model ----
(***************************************************************************)
(* A model of pyxllib/debug/strlib.py: the generalized substring search    *)
(* strfind (single needle / needle collection, forward / backward,         *)
(* overlapping / non-overlapping) and the array helpers len_in_dim2 and    *)
(* ensure_array.                                                           *)
(*                                                                         *)
(* Strings are sequences of one-character strings, positions are 0-based   *)
(* as in Python (position q of a string s is s[q+1] here).                 *)
(***************************************************************************)
EXTENDS Integers, Sequences, FiniteSets, TLC

VARIABLES
    fullstr,   \* strfind: the haystack
    objstr,    \* strfind: the needle argument, [isstr, str, items]
    start,     \* strfind: <<>> for None, <<k>> for the integer k
    times,     \* strfind: signed occurrence index
    overlap,   \* strfind: the overlap flag
    p,         \* strfind: the local p
    hist,      \* strfind: the values p took, one per loop iteration
    pc,        \* strfind: "idle", "call", "loop" or "done"
    result,    \* strfind: the returned value, meaningful when pc = "done"
    arr,       \* ensure_array: the argument arr
    default_value, \* ensure_array: the argument default_value
    max_cols,  \* ensure_array: the local max_cols
    a,         \* ensure_array: the local list a
    i,         \* ensure_array: the loop index i
    apc,       \* ensure_array: "idle", "call", "loop" or "done"
    aresult,   \* ensure_array: the returned value, meaningful when apc = "done"
    sys_stdout, \* Stdout: the stream sys.stdout names, 0 the console's, k object k's strout
    objs,      \* Stdout: the objects constructed, [origin_stdout, path, result, closed]
    strout,    \* Stdout: the text in each object's strout, a sequence of writes
    console,   \* Stdout: the text written to the console
    blocks,    \* Stdout: the open with-blocks, innermost last, [obj, before]
    printed,   \* Stdout: the number of print calls made
    last,      \* Stdout: the last operation, [op, obj, expect, raised]
    xmode,     \* column names: "idle", "int" (a number's round trip) or "name"
    xarg_d,    \* column names: the number the round trip starts from, 0 if none
    xarg_s,    \* column names: the name the round trip starts from, <<>> if none
    xd,        \* column names: the local d of the function running
    xs,        \* column names: the local s of the function running
    xk,        \* column names: the characters of s that for ch in s has read
    xpc,       \* column names: "idle", "int2name", "name2int" or "done"
    xcalls,    \* column names: the calls that have returned
    xname,     \* column names: what int2excel_col_name returned, <<>> before
    xint       \* column names: what excel_col_name2int returned, 0 before

vars == <<fullstr, objstr, start, times, overlap, p, hist, pc, result,
          arr, default_value, max_cols, a, i, apc, aresult,
          sys_stdout, objs, strout, console, blocks, printed, last,
          xmode, xarg_d, xarg_s, xd, xs, xk, xpc, xcalls, xname, xint>>

strfindVars == <<fullstr, objstr, start, times, overlap, p, hist, pc, result>>
arrayVars == <<arr, default_value, max_cols, a, i, apc, aresult>>
stdoutVars == <<sys_stdout, objs, strout, console, blocks, printed, last>>
excelVars == <<xmode, xarg_d, xarg_s, xd, xs, xk, xpc, xcalls, xname, xint>>

----------------------------------------------------------------------------
(* Bounds of the model *)

MaxLen == 4        \* longest haystack
MaxNeedle == 2     \* longest needle
MaxItems == 2      \* most needles in a collection
MaxTimes == 2      \* largest |times|

Alphabet == {"a", "b"}

Strs(n) == UNION {[1..k -> Alphabet] : k \in 0..n}

Min(S) == CHOOSE x \in S : \A y \in S : x <= y
Max(S) == CHOOSE x \in S : \A y \in S : x >= y

----------------------------------------------------------------------------
(* Python's str.find / str.rfind, as strfind calls them *)

\* sub occurs in s at 0-based position q
MatchAt(s, sub, q) ==
    /\ q >= 0
    /\ q + Len(sub) <= Len(s)
    /\ \A k \in 1..Len(sub) : s[q + k] = sub[k]

\* a slice index as Python adjusts it: negative counts from the end,
\* then clamped into 0..len
SliceIndex(s, k) ==
    IF k < 0 THEN (IF k + Len(s) < 0 THEN 0 ELSE k + Len(s))
    ELSE IF k > Len(s) THEN Len(s) ELSE k

\* s.find(sub, from): lowest position >= from of sub in s, or -1
Find(s, sub, from) ==
    LET lo == IF from < 0 THEN SliceIndex(s, from) ELSE from
        C == {q \in lo..(Len(s) - Len(sub)) : MatchAt(s, sub, q)}
    IN IF C = {} THEN -1 ELSE Min(C)

\* s.rfind(sub, 0, end): highest position of sub lying within s[0:end], or -1
RFind(s, sub, end) ==
    LET hi == SliceIndex(s, end)
        C == {q \in 0..(hi - Len(sub)) : MatchAt(s, sub, q)}
    IN IF C = {} THEN -1 ELSE Max(C)

----------------------------------------------------------------------------
(* strfind *)

None == <<>>
Some(k) == <<k>>

\* nonnegative_min_value gone wrong: 0, not -1, when nothing was found
nonnegative_min_value_zero(ls) ==
    LET nn == {x \in ls : x >= 0}
    IN IF nn = {} THEN 0 ELSE Min(nn)

\* nonnegative_min_value(*arr): the least non-negative value, -1 if none
nonnegative_min_value(ls) ==
    LET nn == {x \in ls : x >= 0}
    IN IF nn = {} THEN -1 ELSE Min(nn)

\* nonnegative_max_value(*arr): the greatest non-negative value, -1 if none
nonnegative_max_value(ls) ==
    LET nn == {x \in ls : x >= 0}
    IN IF nn = {} THEN -1 ELSE Max(nn)

\* the defaults of start: len(fullstr) - 1 going backward, 0 going forward
DefaultStart(s, st, t) ==
    IF st # None THEN st[1]
    ELSE IF t < 0 THEN Len(s) - 1 ELSE 0

\* Offset gone wrong: the overlap flag ignored, always one character
OffsetOne(sub, ov) == 1

\* Offset gone wrong: the overlap flag ignored, always the needle's length
OffsetLen(sub, ov) == Len(sub)

\* offset = 1 if overlap else len(objstr)
Offset(sub, ov) == IF ov THEN 1 ELSE Len(sub)

\* Iterations gone wrong: |times| + 1 iterations in either direction
IterationsAbsPlusOne(t) == IF t >= 0 THEN t + 1 ELSE -t + 1

\* the number of iterations of the loops: range(times + 1), range(-times)
Iterations(t) == IF t >= 0 THEN t + 1 ELSE -t

\* one iteration of the single-needle forward loop
SingleForwardIter(s, sub, q, ov) == Find(s, sub, q + Offset(sub, ov))

\* SingleBackwardIter gone wrong: the end of the match, not its start
SingleBackwardIterEnd(s, sub, q, ov) ==
    LET r == RFind(s, sub, q - Offset(sub, ov))
    IN IF r = -1 THEN -1 ELSE r + Len(sub)

\* one iteration of the single-needle backward loop
SingleBackwardIter(s, sub, q, ov) == RFind(s, sub, q - Offset(sub, ov))

\* the single-needle loops run from p = q with n iterations left; an
\* iteration that finds nothing returns -1 at once
RECURSIVE SingleLoop(_, _, _, _, _, _)
SingleLoop(s, sub, q, n, fwd, ov) ==
    IF n = 0 THEN q
    ELSE LET q2 == IF fwd THEN SingleForwardIter(s, sub, q, ov)
                   ELSE SingleBackwardIter(s, sub, q, ov)
         IN IF q2 = -1 THEN -1 ELSE SingleLoop(s, sub, q2, n - 1, fwd, ov)

\* SingleInit gone wrong: the backward scan stops one character short
SingleInitShort(sub, st, t, ov) ==
    IF t >= 0 THEN st - Offset(sub, ov) ELSE st + Offset(sub, ov)

\* p before the first iteration of the single-needle loops
SingleInit(sub, st, t, ov) ==
    IF t >= 0 THEN st - Offset(sub, ov) ELSE st + Offset(sub, ov) + 1

\* strfind(fullstr, objstr, start=st, times=t, overlap=ov) for a str objstr;
\* st is None or Some(k)
StrfindStr(s, sub, st, t, ov) ==
    LET st0 == DefaultStart(s, st, t)
    IN SingleLoop(s, sub, SingleInit(sub, st0, t, ov), Iterations(t), t >= 0, ov)

\* one iteration of the multi-needle forward loop: every needle's next
\* occurrence from p + 1, the nearest one taken
MultiForwardIter(s, needles, q, ov) ==
    nonnegative_min_value({StrfindStr(s, x, Some(q + 1), 0, ov) : x \in needles})

\* one iteration of the multi-needle backward loop
MultiBackwardIter(s, needles, q, ov) ==
    nonnegative_max_value({StrfindStr(s, x, Some(q - 1), -1, ov) : x \in needles})

\* MultiInit gone wrong: the cursor starts on start, not one before it
MultiInitOnStart(st, t) == st

\* p before the first iteration of the multi-needle loops
MultiInit(st, t) == IF t >= 0 THEN st - 1 ELSE st + 1

RECURSIVE MultiLoop(_, _, _, _, _, _)
MultiLoop(s, needles, q, n, fwd, ov) ==
    IF n = 0 THEN q
    ELSE LET q2 == IF fwd THEN MultiForwardIter(s, needles, q, ov)
                   ELSE MultiBackwardIter(s, needles, q, ov)
         IN IF q2 = -1 THEN -1 ELSE MultiLoop(s, needles, q2, n - 1, fwd, ov)

\* strfind for a collection objstr
StrfindList(s, needles, st, t, ov) ==
    LET st0 == DefaultStart(s, st, t)
    IN MultiLoop(s, needles, MultiInit(st0, t), Iterations(t), t >= 0, ov)

\* strfind as a function of its arguments; obj is [isstr, str, items]
Strfind(s, obj, st, t, ov) ==
    IF obj.isstr THEN StrfindStr(s, obj.str, st, t, ov)
    ELSE StrfindList(s, obj.items, st, t, ov)

----------------------------------------------------------------------------
(* The arguments a call is made with *)

\* strfind compares characters only for equality, so exchanging "a" and "b"
\* throughout a call changes nothing it returns: of each such pair of calls
\* one is made, the one whose haystack does not begin with "b"
Haystacks == {s \in Strs(MaxLen) : s = <<>> \/ s[1] = "a"}

Needles == Strs(MaxNeedle)

\* a collection is read only through map() and min()/max(), so neither the
\* order nor the repetition of its needles matters: a set of needles
Collections == {c \in SUBSET Needles : Cardinality(c) <= MaxItems}

\* objstr is a str (isstr, the needle in str) or a collection (the needles
\* in items); the field not in use is empty
ObjStrs == {[isstr |-> TRUE, str |-> n, items |-> {}] : n \in Needles}
             \cup {[isstr |-> FALSE, str |-> <<>>, items |-> c] : c \in Collections}

Starts(s) == {None} \cup {Some(k) : k \in 0..Len(s)}

StrfindIdle ==
    /\ fullstr = <<>>
    /\ objstr = [isstr |-> TRUE, str |-> <<>>, items |-> {}]
    /\ start = None
    /\ times = 0
    /\ overlap = FALSE
    /\ p = -1
    /\ hist = <<>>
    /\ pc = "idle"
    /\ result = -1

StrfindCalled ==
    /\ fullstr \in Haystacks
    /\ objstr \in ObjStrs
    /\ start \in Starts(fullstr)
    /\ times \in (-MaxTimes)..MaxTimes
    /\ overlap \in BOOLEAN
    /\ p = -1
    /\ hist = <<>>
    /\ pc = "call"
    /\ result = -1

\* lines 83-87 and the initialisation of p of the branch taken
Enter ==
    /\ pc = "call"
    /\ LET st0 == DefaultStart(fullstr, start, times)
       IN /\ start' = Some(st0)
          /\ p' = IF objstr.isstr
                  THEN SingleInit(objstr.str, st0, times, overlap)
                  ELSE MultiInit(st0, times)
    /\ pc' = "loop"
    /\ UNCHANGED <<fullstr, objstr, times, overlap, hist, result>>
    /\ UNCHANGED <<arrayVars, stdoutVars, excelVars>>

\* the body of a loop sets p; p = -1 returns -1
Iterate(q) ==
    /\ p' = q
    /\ hist' = Append(hist, q)
    /\ IF q = -1
       THEN pc' = "done" /\ result' = -1
       ELSE pc' = "loop" /\ result' = result
    /\ UNCHANGED <<fullstr, objstr, start, times, overlap>>
    /\ UNCHANGED <<arrayVars, stdoutVars, excelVars>>

SingleForward ==
    /\ pc = "loop" /\ objstr.isstr /\ times >= 0
    /\ Len(hist) < Iterations(times)
    /\ Iterate(SingleForwardIter(fullstr, objstr.str, p, overlap))

SingleBackward ==
    /\ pc = "loop" /\ objstr.isstr /\ times < 0
    /\ Len(hist) < Iterations(times)
    /\ Iterate(SingleBackwardIter(fullstr, objstr.str, p, overlap))

MultiForward ==
    /\ pc = "loop" /\ ~objstr.isstr /\ times >= 0
    /\ Len(hist) < Iterations(times)
    /\ Iterate(MultiForwardIter(fullstr, objstr.items, p, overlap))

MultiBackward ==
    /\ pc = "loop" /\ ~objstr.isstr /\ times < 0
    /\ Len(hist) < Iterations(times)
    /\ Iterate(MultiBackwardIter(fullstr, objstr.items, p, overlap))

\* return p, once the loop has run all its iterations
Return ==
    /\ pc = "loop"
    /\ Len(hist) = Iterations(times)
    /\ result' = p
    /\ pc' = "done"
    /\ UNCHANGED <<fullstr, objstr, start, times, overlap, p, hist>>
    /\ UNCHANGED <<arrayVars, stdoutVars, excelVars>>

----------------------------------------------------------------------------
(* len_in_dim2 and ensure_array *)

MaxRows == 3       \* most items of arr
MaxCols == 2       \* longest row of arr

\* a value is <<"int", k>> or <<"str", text>>
Elements == {<<"int", 1>>, <<"int", 2>>}
DefaultValues == {<<"str", "">>, <<"int", 0>>}

\* str(default_value)
Str(v) == IF v[1] = "str" THEN v ELSE <<"str", ToString(v[2])>>

\* an item of arr is a list or tuple, [islist |-> TRUE, val |-> its items],
\* or a single element e, [islist |-> FALSE, val |-> <<e>>]
Rows == {[islist |-> TRUE, val |-> r] :
            r \in UNION {[1..k -> Elements] : k \in 0..MaxCols}}
Singles == {[islist |-> FALSE, val |-> <<e>>] : e \in Elements}
Arrays == UNION {[1..n -> Rows \cup Singles] : n \in 0..MaxRows}

\* len_in_dim2(arr): the loop over the first n items of arr
RECURSIVE len_in_dim2_upto(_, _)
len_in_dim2_upto(ar, n) ==
    IF n = 0 THEN 0
    ELSE LET column_num == len_in_dim2_upto(ar, n - 1)
             w == IF ar[n].islist THEN Len(ar[n].val) ELSE 1
         IN IF column_num >= w THEN column_num ELSE w

len_in_dim2(ar) == len_in_dim2_upto(ar, Len(ar))

\* n copies of v: [v] * n
Repeat(v, n) == [k \in 1..n |-> v]

\* the row the loop of ensure_array builds from item ls
PaddedRow(ls, cols, dv) ==
    LET t == ls.val   \* list(arr[i]), or [ls] for a single element
    IN [islist |-> TRUE, val |-> t \o Repeat(dv, cols - Len(t))]

ArrayIdle ==
    /\ arr = <<>>
    /\ default_value = <<"str", "">>
    /\ max_cols = 0
    /\ a = <<>>
    /\ i = 0
    /\ apc = "idle"
    /\ aresult = <<>>

ArrayCalled ==
    /\ arr \in Arrays
    /\ default_value \in DefaultValues
    /\ max_cols = 0
    /\ a = <<>>
    /\ i = 0
    /\ apc = "call"
    /\ aresult = <<>>

\* max_cols = len_in_dim2(arr); if max_cols == 1: return arr
EnsureReturnArr ==
    /\ apc = "call"
    /\ len_in_dim2(arr) = 1
    /\ max_cols' = 1
    /\ aresult' = arr
    /\ apc' = "done"
    /\ UNCHANGED <<arr, default_value, a, i>>
    /\ UNCHANGED <<strfindVars, stdoutVars, excelVars>>

\* a = [[]] * len(arr)
EnsureAlloc ==
    /\ apc = "call"
    /\ len_in_dim2(arr) # 1
    /\ max_cols' = len_in_dim2(arr)
    /\ a' = Repeat([islist |-> TRUE, val |-> <<>>], Len(arr))
    /\ i' = 0
    /\ apc' = "loop"
    /\ UNCHANGED <<arr, default_value, aresult>>
    /\ UNCHANGED <<strfindVars, stdoutVars, excelVars>>

\* one iteration of for i, ls in enumerate(arr)
EnsureRow ==
    /\ apc = "loop"
    /\ i < Len(arr)
    /\ a' = [a EXCEPT ![i + 1] = PaddedRow(arr[i + 1], max_cols, Str(default_value))]
    /\ i' = i + 1
    /\ UNCHANGED <<arr, default_value, max_cols, apc, aresult>>
    /\ UNCHANGED <<strfindVars, stdoutVars, excelVars>>

\* return a
EnsureReturn ==
    /\ apc = "loop"
    /\ i = Len(arr)
    /\ aresult' = a
    /\ apc' = "done"
    /\ UNCHANGED <<arr, default_value, max_cols, a, i>>
    /\ UNCHANGED <<strfindVars, stdoutVars, excelVars>>

----------------------------------------------------------------------------
(* Stdout *)

MaxObjects == 2    \* most Stdout objects constructed
MaxDepth == 3      \* deepest nesting of with-blocks
MaxPrints == 2     \* most print calls

\* the console's stream, the sys.stdout of a fresh process
Console == 0

StdoutIdle ==
    /\ sys_stdout = Console
    /\ objs = <<>>
    /\ strout = <<>>
    /\ console = <<>>
    /\ blocks = <<>>
    /\ printed = 0
    /\ last = [op |-> "idle", obj |-> 0, expect |-> Console, raised |-> FALSE]

StdoutStarted ==
    /\ sys_stdout = Console
    /\ objs = <<>>
    /\ strout = <<>>
    /\ console = <<>>
    /\ blocks = <<>>
    /\ printed = 0
    /\ last = [op |-> "start", obj |-> 0, expect |-> Console, raised |-> FALSE]

\* Stdout(path): __init__ keeps the sys.stdout of this moment and makes an
\* empty strout; result is None, which __str__ treats as the empty text
StdoutInit ==
    /\ Len(objs) < MaxObjects
    /\ \E path \in BOOLEAN :
          objs' = Append(objs, [origin_stdout |-> sys_stdout, path |-> path,
                                result |-> <<>>, closed |-> FALSE])
    /\ strout' = Append(strout, <<>>)
    /\ last' = [op |-> "init", obj |-> Len(objs) + 1, expect |-> sys_stdout,
                raised |-> FALSE]
    /\ UNCHANGED <<sys_stdout, console, blocks, printed>>
    /\ UNCHANGED <<strfindVars, arrayVars, excelVars>>

\* with o: ... enters a block, __enter__ sets sys.stdout = self.strout; the
\* block remembers what sys.stdout was
StdoutEnter ==
    /\ Len(blocks) < MaxDepth
    /\ \E o \in 1..Len(objs) :
          /\ sys_stdout' = o
          /\ blocks' = Append(blocks, [obj |-> o, before |-> sys_stdout])
          /\ last' = [op |-> "enter", obj |-> o, expect |-> sys_stdout,
                      raised |-> FALSE]
    /\ UNCHANGED <<objs, strout, console, printed>>
    /\ UNCHANGED <<strfindVars, arrayVars, excelVars>>

\* str(self): result if it is not empty, else strout.getvalue()
StdoutStr(o) == IF objs[o].result # <<>> THEN objs[o].result ELSE strout[o]

\* the innermost block ends: __exit__ sets sys.stdout = self.origin_stdout,
\* then result = str(self), where getvalue() of a closed strout raises
\* ValueError; with a path the text is written out and strout closed
StdoutExit ==
    /\ blocks # <<>>
    /\ LET top == blocks[Len(blocks)]
           o == top.obj
           raises == objs[o].result = <<>> /\ objs[o].closed
       IN /\ sys_stdout' = objs[o].origin_stdout
          /\ objs' = IF raises THEN objs
                     ELSE [objs EXCEPT ![o].result = StdoutStr(o),
                                       ![o].closed = objs[o].closed \/ objs[o].path]
          /\ last' = [op |-> "exit", obj |-> o, expect |-> top.before,
                      raised |-> raises]
    /\ blocks' = SubSeq(blocks, 1, Len(blocks) - 1)
    /\ UNCHANGED <<strout, console, printed>>
    /\ UNCHANGED <<strfindVars, arrayVars, excelVars>>

\* print(...) writes to the stream sys.stdout names; writing to a closed
\* strout raises ValueError
StdoutWrite ==
    /\ printed < MaxPrints
    /\ printed' = printed + 1
    /\ IF sys_stdout = Console
       THEN /\ console' = Append(console, printed + 1)
            /\ strout' = strout
            /\ last' = [op |-> "print", obj |-> sys_stdout, expect |-> sys_stdout, raised |-> FALSE]
       ELSE IF objs[sys_stdout].closed
       THEN /\ UNCHANGED <<console, strout>>
            /\ last' = [op |-> "print", obj |-> sys_stdout, expect |-> sys_stdout, raised |-> TRUE]
       ELSE /\ strout' = [strout EXCEPT ![sys_stdout] = Append(@, printed + 1)]
            /\ console' = console
            /\ last' = [op |-> "print", obj |-> sys_stdout, expect |-> sys_stdout, raised |-> FALSE]
    /\ UNCHANGED <<sys_stdout, objs, blocks>>
    /\ UNCHANGED <<strfindVars, arrayVars, excelVars>>

----------------------------------------------------------------------------
(* int2excel_col_name and excel_col_name2int *)

MaxD == 750        \* largest number converted
MaxNameLen == 2    \* longest name converted

Letters == <<"A", "B", "C", "D", "E", "F", "G", "H", "I", "J", "K", "L", "M",
             "N", "O", "P", "Q", "R", "S", "T", "U", "V", "W", "X", "Y", "Z">>

\* chr(n) and ord(ch) on the capital letters, 65..90
Chr(n) == Letters[n - 64]
Ord(ch) == CHOOSE n \in 65..90 : Letters[n - 64] = ch

ColNames == UNION {[1..n -> {Letters[k] : k \in 1..26}] : n \in 1..MaxNameLen}

Reversed(q) == [k \in 1..Len(q) |-> q[Len(q) + 1 - k]]

\* ColDigit gone wrong: the digit taken from d, not from d - 1
ColDigitOfD(d) == d % 26

\* t = (d - 1) % 26
ColDigit(d) == (d - 1) % 26

\* d = (d - 1) // 26
ColRest(d) == (d - 1) \div 26

\* d * 26 + (ord(ch) - 64)
ColAdd(d, ch) == d * 26 + (Ord(ch) - 64)

ExcelIdle ==
    /\ xmode = "idle"
    /\ xarg_d = 0
    /\ xarg_s = <<>>
    /\ xd = 0
    /\ xs = <<>>
    /\ xk = 0
    /\ xpc = "idle"
    /\ xcalls = 0
    /\ xname = <<>>
    /\ xint = 0

\* int2excel_col_name(d) is called with a number, or excel_col_name2int(s)
\* with a name
ExcelCalled ==
    /\ xk = 0
    /\ xcalls = 0
    /\ xname = <<>>
    /\ xint = 0
    /\ \/ /\ xmode = "int"
          /\ xarg_d \in 1..MaxD
          /\ xarg_s = <<>>
          /\ xd = xarg_d
          /\ xs = <<>>
          /\ xpc = "int2name"
       \/ /\ xmode = "name"
          /\ xarg_d = 0
          /\ xarg_s \in ColNames
          /\ xd = 0
          /\ xs = xarg_s
          /\ xpc = "name2int"

\* one iteration of while d in int2excel_col_name
int2excel_col_name_while ==
    /\ xpc = "int2name"
    /\ xd # 0
    /\ xs' = Append(xs, Chr(65 + ColDigit(xd)))
    /\ xd' = ColRest(xd)
    /\ UNCHANGED <<xmode, xarg_d, xarg_s, xk, xpc, xcalls, xname, xint>>
    /\ UNCHANGED <<strfindVars, arrayVars, stdoutVars>>

\* return ''.join(reversed(s)); the first call's value is handed to
\* excel_col_name2int
int2excel_col_name_return ==
    /\ xpc = "int2name"
    /\ xd = 0
    /\ xname' = Reversed(xs)
    /\ xcalls' = xcalls + 1
    /\ IF xcalls = 0
       THEN xpc' = "name2int" /\ xs' = Reversed(xs) /\ xd' = 0 /\ xk' = 0
       ELSE xpc' = "done" /\ UNCHANGED <<xs, xd, xk>>
    /\ UNCHANGED <<xmode, xarg_d, xarg_s, xint>>
    /\ UNCHANGED <<strfindVars, arrayVars, stdoutVars>>

\* one iteration of for ch in s in excel_col_name2int
excel_col_name2int_for ==
    /\ xpc = "name2int"
    /\ xk < Len(xs)
    /\ xd' = ColAdd(xd, xs[xk + 1])
    /\ xk' = xk + 1
    /\ UNCHANGED <<xmode, xarg_d, xarg_s, xs, xpc, xcalls, xname, xint>>
    /\ UNCHANGED <<strfindVars, arrayVars, stdoutVars>>

\* return d; the first call's value is handed to int2excel_col_name
excel_col_name2int_return ==
    /\ xpc = "name2int"
    /\ xk = Len(xs)
    /\ xint' = xd
    /\ xcalls' = xcalls + 1
    /\ IF xcalls = 0
       THEN xpc' = "int2name" /\ xs' = <<>> /\ xd' = xd /\ xk' = 0
       ELSE xpc' = "done" /\ UNCHANGED <<xs, xd, xk>>
    /\ UNCHANGED <<xmode, xarg_d, xarg_s, xname>>
    /\ UNCHANGED <<strfindVars, arrayVars, stdoutVars>>

----------------------------------------------------------------------------
(* Specifications *)

Init == StrfindCalled /\ ArrayIdle /\ StdoutIdle /\ ExcelIdle

Next ==
    \/ Enter
    \/ SingleForward
    \/ SingleBackward
    \/ MultiForward
    \/ MultiBackward
    \/ Return

\* calls of strfind
Spec == Init /\ [][Next]_vars

InitArray == StrfindIdle /\ ArrayCalled /\ StdoutIdle /\ ExcelIdle

NextArray ==
    \/ EnsureReturnArr
    \/ EnsureAlloc
    \/ EnsureRow
    \/ EnsureReturn

\* calls of ensure_array
SpecArray == InitArray /\ [][NextArray]_vars

InitStdout == StrfindIdle /\ ArrayIdle /\ StdoutStarted /\ ExcelIdle

NextStdout ==
    \/ StdoutInit
    \/ StdoutEnter
    \/ StdoutExit
    \/ StdoutWrite

\* a process that constructs, enters and exits Stdout objects and prints
SpecStdout == InitStdout /\ [][NextStdout]_vars

InitExcel == StrfindIdle /\ ArrayIdle /\ StdoutIdle /\ ExcelCalled

NextExcel ==
    \/ int2excel_col_name_while
    \/ int2excel_col_name_return
    \/ excel_col_name2int_for
    \/ excel_col_name2int_return

\* a number converted to a column name and back, or a name to a number
\* and back
SpecExcel == InitExcel /\ [][NextExcel]_vars

----------------------------------------------------------------------------
(* What the claims speak of, stated without the code's scanning *)

\* sub occurs in s at position q
OccursAt(s, sub, q) ==
    /\ q \in 0..(Len(s) - Len(sub))
    /\ SubSeq(s, q + 1, q + Len(sub)) = sub

Occurrences(s, sub) == {q \in 0..Len(s) : OccursAt(s, sub, q)}

First(S) == IF S = {} THEN -1 ELSE Min(S)
Last(S) == IF S = {} THEN -1 ELSE Max(S)

\* m_k: m_0 the first occurrence at or after from, m_(i+1) the first
\* occurrence at or after m_i + step
RECURSIVE ForwardMatch(_, _, _, _, _)
ForwardMatch(s, sub, from, k, step) ==
    IF k = 0 THEN First({q \in Occurrences(s, sub) : q >= from})
    ELSE LET prev == ForwardMatch(s, sub, from, k - 1, step)
         IN IF prev = -1 THEN -1
            ELSE First({q \in Occurrences(s, sub) : q >= prev + step})

\* the (k+1)-th smallest member of S, -1 if S has fewer
KthSmallest(S, k) ==
    IF Cardinality(S) < k + 1 THEN -1
    ELSE CHOOSE x \in S : Cardinality({y \in S : y < x}) = k

\* the k-th match going backward: the 1st is the rightmost occurrence
\* within positions 0..upto, each next one the rightmost occurrence that
\* ends at or before the start of the previous one (ov = FALSE) or that
\* starts before the previous one (ov = TRUE)
RECURSIVE BackwardMatch(_, _, _, _, _)
BackwardMatch(s, sub, upto, k, ov) ==
    IF k = 1
    THEN Last({q \in Occurrences(s, sub) : q + Len(sub) - 1 <= upto})
    ELSE LET prev == BackwardMatch(s, sub, upto, k - 1, ov)
         IN IF prev = -1 THEN -1
            ELSE Last({q \in Occurrences(s, sub) :
                          IF ov THEN q < prev ELSE q + Len(sub) <= prev})

SingleCall == pc = "done" /\ objstr.isstr /\ objstr.str # <<>>
MultiCall == pc = "done" /\ ~objstr.isstr

\* C1: a forward search for one non-empty needle without overlap returns
\* m_times, where m_0 is the first occurrence at or after start and each
\* next m is the first occurrence at or after the end of the previous
\* match; -1 exactly when m_times does not exist.
C1_ForwardNoOverlap ==
    (SingleCall /\ times >= 0 /\ ~overlap)
        => result = ForwardMatch(fullstr, objstr.str, start[1], times,
                                 Len(objstr.str))

\* a second match was found past the first one, which it may not overlap
C1_Witness ==
    /\ SingleCall /\ times >= 1 /\ ~overlap
    /\ Len(objstr.str) = 2
    /\ hist = <<0, 2>>
    /\ result = 2

\* C2: a forward search for one non-empty needle with overlap returns the
\* (times+1)-th smallest position at or after start at which the needle
\* occurs, overlapping occurrences counted, and -1 when there are fewer.
C2_ForwardOverlap ==
    (SingleCall /\ times >= 0 /\ overlap)
        => result = KthSmallest({q \in Occurrences(fullstr, objstr.str) :
                                    q >= start[1]}, times)

\* the second match overlaps the first
C2_Witness ==
    /\ SingleCall /\ times = 1 /\ overlap
    /\ Len(objstr.str) = 2
    /\ hist = <<1, 2>>
    /\ result = 2

\* C3: a backward search for one non-empty needle from start in
\* 0..len-1 returns the start of the |times|-th match going backward, the
\* matches not overlapping (overlap = FALSE) or each starting before the
\* previous one (overlap = TRUE); -1 exactly when there are fewer.
C3_Backward ==
    (SingleCall /\ times < 0 /\ start[1] \in 0..(Len(fullstr) - 1))
        => result = BackwardMatch(fullstr, objstr.str, start[1], -times,
                                  overlap)

NeedlesOf(obj) == IF obj.isstr THEN {obj.str} ELSE obj.items

\* C4: what strfind returns is -1 or a position at which one of the
\* needles occurs in the haystack.
C4_Soundness ==
    pc = "done"
        => \/ result = -1
           \/ \E n \in NeedlesOf(objstr) : OccursAt(fullstr, n, result)

\* a backward search over a collection returned a match of a needle of
\* two characters that is not its last character's position
C4_Witness ==
    /\ MultiCall /\ times = -2
    /\ \A n \in objstr.items : Len(n) = 2
    /\ result = 0

\* C5: over a non-empty collection of non-empty needles, times = 0 returns
\* the least position at or after start at which a needle occurs, and
\* times = -1 the greatest position of an occurrence of a needle lying
\* within positions 0..start; -1 exactly when there is none.
C5_NearestPick ==
    (MultiCall /\ objstr.items # {} /\ <<>> \notin objstr.items)
        => /\ times = 0 =>
                result = First({q \in 0..Len(fullstr) : q >= start[1] /\
                            \E n \in objstr.items : OccursAt(fullstr, n, q)})
           /\ times = -1 =>
                result = Last({q \in 0..Len(fullstr) :
                            \E n \in objstr.items :
                                /\ OccursAt(fullstr, n, q)
                                /\ q + Len(n) - 1 <= start[1]})

\* two needles, the nearer one picked, in either direction
C5_Witness ==
    /\ MultiCall /\ Cardinality(objstr.items) = 2 /\ <<>> \notin objstr.items
    /\ \A n \in objstr.items : Occurrences(fullstr, n) # {}
    /\ \/ times = 0 /\ start[1] = 1 /\ result = 1
       \/ times = -1 /\ start[1] = 1 /\ result = 0

Abs(x) == IF x < 0 THEN -x ELSE x

\* C6 as stated: over a collection the step is repeated |times|+1 times in
\* either direction, and what is returned is the position the
\* (|times|+1)-th step chose.
C6_StepsAbsPlusOne ==
    (MultiCall /\ result # -1)
        => /\ Len(hist) = Abs(times) + 1
           /\ result = hist[Abs(times) + 1]

\* C6 as amended: over a collection the step is repeated times+1 times
\* going forward and |times| times going backward, short of a step that
\* finds nothing; what is returned is the position the last of these steps
\* chose.
C6_StepCount ==
    MultiCall
        => LET n == IF times >= 0 THEN times + 1 ELSE -times
           IN /\ result # -1 => (Len(hist) = n /\ result = hist[n])
              /\ result = -1 => (/\ Len(hist) \in 1..n
                                 /\ hist[Len(hist)] = -1
                                 /\ \A j \in 1..(Len(hist) - 1) : hist[j] >= 0)

\* a backward search over a collection that took two steps
C6_Witness ==
    /\ MultiCall /\ times = -2 /\ objstr.items # {}
    /\ Len(hist) = 2
    /\ result = hist[2] /\ result >= 0 /\ hist[1] > result

\* C7: in a forward search over a collection without overlap, each
\* counted match starts at or after the end of the match counted before it.
C7_MultiNoOverlap ==
    (~objstr.isstr /\ times >= 1 /\ ~overlap /\ pc \in {"loop", "done"})
        => \A j \in 2..Len(hist) :
              hist[j] >= 0 =>
                  \E n \in objstr.items :
                      /\ OccursAt(fullstr, n, hist[j - 1])
                      /\ hist[j] >= hist[j - 1] + Len(n)

\* the start that an unset start becomes
StartUnset == start = Some(IF times < 0 THEN Len(fullstr) - 1 ELSE 0)

\* C8 as stated: on the empty haystack, start unset, strfind returns -1
\* whatever the needle, the occurrence and the overlap flag.
C8_EmptyHaystackAnyNeedle ==
    (pc = "done" /\ fullstr = <<>> /\ StartUnset) => result = -1

\* C8 as amended: on the empty haystack, start unset, strfind returns -1
\* for every non-empty needle string and every collection of non-empty
\* needle strings, whatever the occurrence and the overlap flag.
C8_EmptyHaystack ==
    (pc = "done" /\ fullstr = <<>> /\ StartUnset /\ <<>> \notin NeedlesOf(objstr))
        => result = -1

\* the empty haystack searched backward for a collection, and forward
C8_Witness ==
    /\ pc = "done" /\ fullstr = <<>> /\ StartUnset
    /\ ~objstr.isstr /\ Cardinality(objstr.items) = 2
    /\ <<>> \notin objstr.items
    /\ times = -2
    /\ result = -1

\* C9: when a forward search from start 0 for one non-empty needle finds
\* position q, a backward search with times = -1 from the last character
\* of that match finds q again.
C9_Symmetry ==
    (SingleCall /\ times >= 0 /\ start = Some(0) /\ result # -1)
        => Strfind(fullstr, objstr, Some(result + Len(objstr.str) - 1), -1,
                   overlap) = result

\* the forward search found a second match, with a later one behind it
C9_Witness ==
    /\ SingleCall /\ times = 1 /\ start = Some(0)
    /\ result = 1
    /\ Len(objstr.str) = 2
    /\ Occurrences(fullstr, objstr.str) = {0, 1, 2}

\* the items of a row, a single element counting as a row of one item
RowItems(item) == item.val

\* the length of the longest row
Widest(ar) == Max({0} \cup {Len(RowItems(ar[r])) : r \in 1..Len(ar)})

\* C10: every row of what ensure_array returns has exactly
\* len_in_dim2(arr) items: the items of the row of arr, then
\* str(default_value) as padding.
C10_Rectangular ==
    apc = "done"
        => /\ Len(aresult) = Len(arr)
           /\ \A r \in 1..Len(arr) :
                 /\ Len(RowItems(aresult[r])) = Widest(arr)
                 /\ RowItems(aresult[r]) =
                        RowItems(arr[r]) \o
                            Repeat(Str(default_value),
                                   Widest(arr) - Len(RowItems(arr[r])))

\* the collection holding the one needle n
OneNeedle(n) == [isstr |-> FALSE, str |-> <<>>, items |-> {n}]

\* C11: for one non-empty needle n, whatever the start, the occurrence and
\* the overlap flag, strfind with the collection [n] returns what strfind
\* with the string n returns.
C11_SingleEqualsCollection ==
    SingleCall
        => Strfind(fullstr, OneNeedle(objstr.str), start, times, overlap)
               = result

\* C12: when a with-block of a Stdout ends (one that is not open in an
\* enclosing block as well), sys.stdout is again the stream it was
\* immediately before that block's __enter__, so that what is printed next
\* goes to the enclosing block's Stdout.
C12_Restored ==
    (/\ last.op = "exit"
     /\ \A k \in 1..Len(blocks) : blocks[k].obj # last.obj)
        => sys_stdout = last.expect

\* a non-empty string over the letters A..Z
IsColName(q) ==
    /\ Len(q) >= 1
    /\ \A k \in 1..Len(q) : \E n \in 1..26 : q[k] = Letters[n]

\* C13: for d >= 1, int2excel_col_name(d) is a non-empty string over A..Z
\* that excel_col_name2int takes back to d; for a non-empty string s over
\* A..Z, int2excel_col_name takes excel_col_name2int(s) back to s.
C13_RoundTrip ==
    xpc = "done"
        => /\ xmode = "int" => (IsColName(xname) /\ xint = xarg_d)
           /\ xmode = "name" => xname = xarg_s

\* 28 went to AB and back
C13_Witness ==
    /\ xpc = "done" /\ xmode = "int"
    /\ xarg_d = 28
    /\ xname = <<"A", "B">>
    /\ xint = 28

====
